---------------------------- MODULE Spec2Model ----------------------------
(* djlib geometric primitives (primitives.py): Vector, Entity, Rectangle and *)
(* Circle and their containment / intersection queries.                      *)
(*                                                                           *)
(* A Vector is a Python list of numbers: here a sequence of integers.        *)
(* Objects are records tagged with their class in the field "kind".         *)
(* The outcome of a call is a record too: a boolean, None, a new Rectangle,  *)
(* or a raised exception.                                                    *)
EXTENDS Integers, Sequences, FiniteSets, TLC

(* Bounding-volume queries: receiver, operand, the call made, its outcome.    *)
VARIABLES self, other, called, result

geoVars == <<self, other, called, result>>

(* Vector algebra: the two operand lists, the operation applied, its outcome.*)
VARIABLES va, vb, vcalled, vresult

vecVars == <<va, vb, vcalled, vresult>>

(* Vector objects with identity: heap[1] is the receiver, heap[2] the vector *)
(* object created by the last copy() / normalized(); ret is the caller's     *)
(* reference to the vector last returned (0: none); then call and outcome.   *)
VARIABLES heap, ret, ocalled, oresult

objVars == <<heap, ret, ocalled, oresult>>

(* Entities and their position Vectors: pheap is the heap of position       *)
(* Vector objects (pheap[1] is the Point built once for the default          *)
(* argument of Entity.__init__, pheap[1 + e] the Vector made for entity e),  *)
(* epos[e] the object entity e refers to as self.pos, then the call made.    *)
VARIABLES pheap, epos, ecalled

entVars == <<pheap, epos, ecalled>>

(* A Ray's direction Vector, its value on entry to the last rotation, and    *)
(* the call made.                                                            *)
VARIABLES rdir, rbefore, rcalled

rayVars == <<rdir, rbefore, rcalled>>

(* TriggerManager: triggers is the manager's list (of trigger ids), trig the *)
(* Trigger objects by id, tent the position of the Entity the Proximity      *)
(* triggers watch, obs what has been observed of each trigger (callback      *)
(* invocations, updates taken part in).                                      *)
VARIABLES triggers, trig, tent, obs

trigVars == <<triggers, trig, tent, obs>>

(* IdAllocator: alloc is the allocator object, aids the ids returned so far, *)
(* adup whether a returned id had been returned before, acalled the last     *)
(* call and aresult what it returned.                                        *)
VARIABLES alloc, aids, adup, acalled, aresult

allocVars == <<alloc, aids, adup, acalled, aresult>>

(* Animator: anims is the AnimationSet.anims dictionary (name to frame       *)
(* range, the empty tuple for a name not registered), animator the Animator  *)
(* object.                                                                   *)
VARIABLES anims, animator

animVars == <<anims, animator>>

(* AssetManager: amgr is the manager object, msaved the manager as it was at *)
(* each saveAssets() not yet undone, mbefore the one that the last           *)
(* restoreAssets() answered, mcalled the last call.                          *)
VARIABLES amgr, msaved, mbefore, mcalled

assetVars == <<amgr, msaved, mbefore, mcalled>>

(* Button: button is the Button object, bevent the last event handed to     *)
(* processEvent, bnotes the number of click notifications issued so far     *)
(* (callback calls or BUTTON_CLICKED events posted).                         *)
VARIABLES button, bevent, bnotes

btnVars == <<button, bevent, bnotes>>

vars == <<geoVars, vecVars, objVars, entVars, rayVars, trigVars, allocVars, animVars, assetVars, btnVars>>

(* What the operations of each group leave alone.                            *)
notGeoVars == <<vecVars, objVars, entVars, rayVars, trigVars, allocVars, animVars, assetVars, btnVars>>
notVecVars == <<geoVars, objVars, entVars, rayVars, trigVars, allocVars, animVars, assetVars, btnVars>>
notObjVars == <<geoVars, vecVars, entVars, rayVars, trigVars, allocVars, animVars, assetVars, btnVars>>
notEntVars == <<geoVars, vecVars, objVars, rayVars, trigVars, allocVars, animVars, assetVars, btnVars>>
notRayVars == <<geoVars, vecVars, objVars, entVars, trigVars, allocVars, animVars, assetVars, btnVars>>
notTrigVars == <<geoVars, vecVars, objVars, entVars, rayVars, allocVars, animVars, assetVars, btnVars>>
notAllocVars == <<geoVars, vecVars, objVars, entVars, rayVars, trigVars, animVars, assetVars, btnVars>>
notAnimVars == <<geoVars, vecVars, objVars, entVars, rayVars, trigVars, allocVars, assetVars, btnVars>>
notAssetVars == <<geoVars, vecVars, objVars, entVars, rayVars, trigVars, allocVars, animVars, btnVars>>
notBtnVars == <<geoVars, vecVars, objVars, entVars, rayVars, trigVars, allocVars, animVars, assetVars>>

-----------------------------------------------------------------------------
(* Bounds of the explored input space.                                       *)
MaxCoord == 2
MaxSize == 2
MaxRadius == 2
MaxOffset == 1
MaxDim == 3
MaxVal == 1
MaxDir == 2
MaxEntities == 2
MaxTriggers == 2
MaxDelay == 2
MaxDt == 2
MaxTime == 3
MaxId == 3
MaxFrame == 2
MaxDepth == 2
MaxTotal == 5
MaxClicks == 3

-----------------------------------------------------------------------------
(* Outcomes of a call.                                                       *)
Bool(b) == [kind |-> "bool", val |-> b]
None == [kind |-> "None"]
Raise(exc) == [kind |-> "raise", exc |-> exc]
Unset == [kind |-> "unset"]

Min(a, b) == IF a <= b THEN a ELSE b
Range(f) == {f[i] : i \in DOMAIN f}

-----------------------------------------------------------------------------
(* class Vector(list)                                                        *)

(* Vector.__init__: the tagged object; its list is the field coords.         *)
Vector(coords) == [kind |-> "Vector", coords |-> coords]

(* zip(a, b) stops at the shorter operand.                                   *)
Vector_add(a, b) == [i \in 1..Min(Len(a), Len(b)) |-> a[i] + b[i]]

(* Variant: the operands of the subtraction exchanged.                       *)
Vector_sub_reversed(a, b) == [i \in 1..Min(Len(a), Len(b)) |-> b[i] - a[i]]

Vector_sub(a, b) == [i \in 1..Min(Len(a), Len(b)) |-> a[i] - b[i]]

RECURSIVE SumSq(_)
SumSq(v) == IF v = <<>> THEN 0 ELSE Head(v) * Head(v) + SumSq(Tail(v))

(* math.sqrt of a non-negative integer n, kept exactly: its integer part and *)
(* whether n is a perfect square (i.e. whether the root equals that part).   *)
Sqrt(n) ==
    LET k == CHOOSE j \in 0..n : j * j <= n /\ (j + 1) * (j + 1) > n
    IN [floor |-> k, exact |-> (k * k = n)]

Vector_length(v) == Sqrt(SumSq(v))

Vector_distanceApart(a, b) == Vector_length(Vector_sub(a, b))

(* Comparisons of a length (a root) with an integer.                         *)
RootLT(len, r) == len.floor < r
RootLE(len, r) == len.floor < r \/ (len.floor = r /\ len.exact)

Vector_copy(v) == v

-----------------------------------------------------------------------------
(* class Entity / Rectangle / Circle: constructors                           *)
Entity(pos) == [kind |-> "Entity", pos |-> pos]
Rectangle(pos, size) == [kind |-> "Rectangle", pos |-> pos, size |-> size]
Circle(pos, radius) == [kind |-> "Circle", pos |-> pos, radius |-> radius]

Rectangle_fromPoints(top_left, bottom_right) ==
    Rectangle(top_left, Vector_sub(bottom_right, top_left))

Rectangle_fromSides(left, top, right, bottom) ==
    Rectangle(<<left, top>>, <<right - left, bottom - top>>)

(* isinstance(entity, cls) over the class hierarchy                          *)
(* Vector(list); Entity(object); BoundingVolume(Entity);                     *)
(* Rectangle(BoundingVolume); Circle(BoundingVolume).                        *)
IsInstance(obj, cls) ==
    \/ obj.kind = cls
    \/ cls = "Entity" /\ obj.kind \in {"Rectangle", "Circle"}

(* Attribute lookup obj.name for the method names the queries use.  Vector   *)
(* and Rectangle define __getattr__, which resolves none of these names.     *)
HasAttr(obj, name) ==
    CASE name = "contains" -> obj.kind \in {"Rectangle", "Circle"}
      [] name = "intersects" -> obj.kind = "Rectangle"
      [] name = "corners" -> obj.kind = "Rectangle"
      [] name = "left" -> obj.kind = "Rectangle"
      [] OTHER -> FALSE

(* Rectangle.__getattr__: left, top, right, bottom                           *)
Rectangle_left(r) == r.pos[1]
Rectangle_top(r) == r.pos[2]
Rectangle_right(r) == r.pos[1] + r.size[1]
Rectangle_bottom(r) == r.pos[2] + r.size[2]

Rectangle_corners(r) ==
    << Vector_copy(r.pos),
       Vector_add(r.pos, <<r.size[1], 0>>),
       Vector_add(r.pos, <<0, r.size[2]>>),
       Vector_add(r.pos, r.size) >>

-----------------------------------------------------------------------------
(* Rectangle.contains, one operator per isinstance branch                    *)

(* Variant: the right and bottom edges taken as exclusive.                   *)
Rectangle_containsVector_exclusive(rect, entity) ==
    LET bottom_right == Vector_add(rect.pos, rect.size)
    IN /\ entity[1] >= rect.pos[1] /\ entity[1] < bottom_right[1]
       /\ entity[2] >= rect.pos[2] /\ entity[2] < bottom_right[2]

(* Vector branch: the point against pos and bottom_right = pos + size.       *)
Rectangle_containsVector(rect, entity) ==
    LET bottom_right == Vector_add(rect.pos, rect.size)
    IN /\ entity[1] >= rect.pos[1] /\ entity[1] <= bottom_right[1]
       /\ entity[2] >= rect.pos[2] /\ entity[2] <= bottom_right[2]

(* Variant: only the top-left corner of the other rectangle is tested.       *)
Rectangle_containsRectangle_topLeftOnly(rect, entity) ==
    Rectangle_containsVector(rect, entity.pos)

(* Rectangle branch: entity.pos and entity_br = entity.pos + entity.size.    *)
Rectangle_containsRectangle(rect, entity) ==
    LET entity_br == Vector_add(entity.pos, entity.size)
    IN /\ Rectangle_containsVector(rect, entity.pos)
       /\ Rectangle_containsVector(rect, entity_br)

(* Variant: a corner exactly at the radius already rejects the circle.       *)
Rectangle_containsCircle_strict(rect, entity) ==
    IF Rectangle_containsVector(rect, entity.pos)
    THEN LET corners == Rectangle_corners(rect)
         IN \A i \in 1..4 :
               ~ RootLE(Vector_distanceApart(entity.pos, corners[i]),
                        entity.radius)
    ELSE FALSE

(* Circle branch: centre inside, and no corner nearer than the radius.       *)
Rectangle_containsCircle(rect, entity) ==
    IF Rectangle_containsVector(rect, entity.pos)
    THEN LET corners == Rectangle_corners(rect)
         IN \A i \in 1..4 :
               ~ RootLT(Vector_distanceApart(entity.pos, corners[i]),
                        entity.radius)
    ELSE FALSE

Rectangle_contains(rect, entity) ==
    IF IsInstance(entity, "Vector")
    THEN Bool(Rectangle_containsVector(rect, entity.coords))
    ELSE IF IsInstance(entity, "Rectangle")
    THEN Bool(Rectangle_containsRectangle(rect, entity))
    ELSE IF IsInstance(entity, "Circle")
    THEN Bool(Rectangle_containsCircle(rect, entity))
    ELSE IF IsInstance(entity, "Entity")
    THEN Bool(Rectangle_containsVector(rect, entity.pos))
    ELSE Raise("NotImplementedError")

-----------------------------------------------------------------------------
(* Circle.contains, one operator per isinstance branch                       *)

(* Variant: a point on the circumference is left out.                        *)
Circle_containsVector_open(circ, entity) ==
    RootLT(Vector_length(Vector_sub(circ.pos, entity)), circ.radius)

Circle_containsVector(circ, entity) ==
    RootLE(Vector_length(Vector_sub(circ.pos, entity)), circ.radius)

(* Variant: all four corners of the rectangle are tested.                    *)
Circle_containsRectangle_allCorners(circ, entity) ==
    \A i \in 1..4 : Circle_containsVector(circ, Rectangle_corners(entity)[i])

Circle_containsRectangle(circ, entity) ==
    /\ Circle_containsVector(circ, entity.pos)
    /\ Circle_containsVector(circ, Vector_add(entity.pos, entity.size))

(* Variant: the inner circle may touch the outer one.                        *)
Circle_containsCircle_touching(circ, entity) ==
    IF circ.radius > entity.radius
    THEN RootLE(Vector_distanceApart(circ.pos, entity.pos),
                circ.radius - entity.radius)
    ELSE FALSE

Circle_containsCircle(circ, entity) ==
    IF circ.radius > entity.radius
    THEN RootLT(Vector_distanceApart(circ.pos, entity.pos),
                circ.radius - entity.radius)
    ELSE FALSE

Circle_contains(circ, entity) ==
    IF IsInstance(entity, "Vector")
    THEN Bool(Circle_containsVector(circ, entity.coords))
    ELSE IF IsInstance(entity, "Rectangle")
    THEN Bool(Circle_containsRectangle(circ, entity))
    ELSE IF IsInstance(entity, "Circle")
    THEN Bool(Circle_containsCircle(circ, entity))
    ELSE IF IsInstance(entity, "Entity")
    THEN Bool(Circle_containsVector(circ, entity.pos))
    ELSE Raise("NotImplementedError")

(* The call obj.contains(arg): attribute lookup, then the class's method.    *)
Call_contains(obj, arg) ==
    IF ~ HasAttr(obj, "contains") THEN Raise("AttributeError")
    ELSE IF obj.kind = "Rectangle" THEN Rectangle_contains(obj, arg)
    ELSE Circle_contains(obj, arg)

-----------------------------------------------------------------------------
(* Rectangle.intersects / intersect / offset                                 *)

(* Variant: the second loop, over the other rectangle's corners, is missing. *)
Rectangle_intersects_oursOnly(slf, rect) ==
    LET ours == Rectangle_corners(slf)
    IN IF ~ HasAttr(rect, "contains") THEN Raise("AttributeError")
       ELSE Bool(\E i \in 1..4 : Call_contains(rect, Vector(ours[i])).val)

(* The first loop calls rect.contains(corner) on our corners, the second     *)
(* reads rect.corners() and tests them against self.                         *)
Rectangle_intersects(slf, rect) ==
    LET ours == Rectangle_corners(slf)
    IN IF ~ HasAttr(rect, "contains") THEN Raise("AttributeError")
       ELSE IF \E i \in 1..4 : Call_contains(rect, Vector(ours[i])).val
       THEN Bool(TRUE)
       ELSE IF ~ HasAttr(rect, "corners") THEN Raise("AttributeError")
       ELSE LET theirs == Rectangle_corners(rect)
            IN Bool(\E i \in 1..4 : Rectangle_containsVector(slf, theirs[i]))

(* Variant: no intersection yields a zero-sized rectangle at the origin.     *)
Rectangle_intersect_zeroSized(slf, rect) ==
    LET hit == Rectangle_intersects(slf, rect)
    IN IF hit.kind = "raise" THEN hit
       ELSE IF ~ hit.val THEN Rectangle(<<0, 0>>, <<0, 0>>)
       ELSE IF ~ HasAttr(rect, "left") THEN Raise("AttributeError")
       ELSE Rectangle_fromSides(
              IF Rectangle_left(slf) >= Rectangle_left(rect)
                 THEN Rectangle_left(slf) ELSE Rectangle_left(rect),
              IF Rectangle_top(slf) >= Rectangle_top(rect)
                 THEN Rectangle_top(slf) ELSE Rectangle_top(rect),
              IF Rectangle_right(slf) < Rectangle_right(rect)
                 THEN Rectangle_right(slf) ELSE Rectangle_right(rect),
              IF Rectangle_bottom(slf) < Rectangle_bottom(rect)
                 THEN Rectangle_bottom(slf) ELSE Rectangle_bottom(rect))

Rectangle_intersect(slf, rect) ==
    LET hit == Rectangle_intersects(slf, rect)
    IN IF hit.kind = "raise" THEN hit
       ELSE IF ~ hit.val THEN None
       ELSE IF ~ HasAttr(rect, "left") THEN Raise("AttributeError")
       ELSE Rectangle_fromSides(
              IF Rectangle_left(slf) >= Rectangle_left(rect)
                 THEN Rectangle_left(slf) ELSE Rectangle_left(rect),
              IF Rectangle_top(slf) >= Rectangle_top(rect)
                 THEN Rectangle_top(slf) ELSE Rectangle_top(rect),
              IF Rectangle_right(slf) < Rectangle_right(rect)
                 THEN Rectangle_right(slf) ELSE Rectangle_right(rect),
              IF Rectangle_bottom(slf) < Rectangle_bottom(rect)
                 THEN Rectangle_bottom(slf) ELSE Rectangle_bottom(rect))

(* Names bound in the module's global namespace that offset looks up: the    *)
(* module defines the class Rectangle and never binds the name Rect.         *)
ModuleGlobals == {"Vector", "Point", "Size", "Entity", "Ray",
                  "BoundingVolume", "Rectangle", "Circle", "math"}

Rectangle_offset(slf, offset_x, offset_y) ==
    LET o == <<offset_x, offset_y>>
    IN IF "Rect" \notin ModuleGlobals THEN Raise("NameError")
       ELSE Rectangle_fromPoints(Vector_sub(slf.pos, o),
                                 Vector_add(slf.size, o))

-----------------------------------------------------------------------------
(* BoundingVolume.size and the width / height it reads                       *)
Tuple(items) == [kind |-> "tuple", items |-> items]

Rectangle_width(r) == r.size[1]
Rectangle_height(r) == r.size[2]
Circle_diameter(c) == c.radius * 2
Circle_width(c) == Circle_diameter(c)
Circle_height(c) == Circle_diameter(c)

BoundingVolume_size(vol) ==
    IF vol.kind = "Rectangle"
    THEN Tuple(<<Rectangle_width(vol), Rectangle_height(vol)>>)
    ELSE Tuple(<<Circle_width(vol), Circle_height(vol)>>)

(* Attributes stored on the instance by __init__; they are found before any  *)
(* method of the class with the same name.                                   *)
InstanceAttrs(obj) ==
    IF obj.kind = "Rectangle" THEN {"pos", "size"}
    ELSE IF obj.kind = "Circle" THEN {"pos", "radius"}
    ELSE {}

(* The call vol.size(): on a Rectangle the name size is the instance's size  *)
(* Vector, which is not callable.                                            *)
Call_size(vol) ==
    IF "size" \in InstanceAttrs(vol) THEN Raise("TypeError")
    ELSE BoundingVolume_size(vol)

-----------------------------------------------------------------------------
(* The explored objects                                                      *)
Coords == 0..MaxCoord
Points == {<<x, y>> : x \in Coords, y \in Coords}
Sizes == {<<w, h>> : w \in 0..MaxSize, h \in 0..MaxSize}
Rectangles == {Rectangle(p, s) : p \in Points, s \in Sizes}
Circles == {Circle(p, r) : p \in Points, r \in 0..MaxRadius}
Vectors == {Vector(p) : p \in Points}
Entities == {Entity(p) : p \in Points}
(* Operands that are no Vector, Rectangle, Circle or Entity.                 *)
Foreign == {[kind |-> "int"], [kind |-> "tuple"]}
Supported == Vectors \cup Rectangles \cup Circles \cup Entities
Offsets == 0..MaxOffset

Call(op, args) == [op |-> op, args |-> args]

(* No Vector operation under way.                                            *)
VecIdle ==
    /\ va = <<>> /\ vb = <<>>
    /\ vcalled = Call("none", <<>>) /\ vresult = Unset

(* No Vector object under observation.                                       *)
NoObj == [cls |-> "none"]
ObjIdle ==
    /\ heap = <<NoObj, NoObj>> /\ ret = 0
    /\ ocalled = Call("none", <<>>) /\ oresult = Unset

(* No Entity created, no Ray rotated.                                        *)
EntIdle == pheap = <<>> /\ epos = <<>> /\ ecalled = Call("none", <<>>)
RayIdle == rdir = NoObj /\ rbefore = NoObj /\ rcalled = Call("none", <<>>)

(* No TriggerManager created.                                                *)
TrigIdle ==
    /\ triggers = <<>> /\ trig = <<>> /\ tent = <<0, 0>> /\ obs = <<>>

(* No IdAllocator created.                                                   *)
AllocIdle ==
    /\ alloc = NoObj /\ aids = {} /\ adup = FALSE
    /\ acalled = Call("none", <<>>) /\ aresult = Unset

(* No AnimationSet loaded.                                                   *)
AnimIdle == anims = <<>> /\ animator = NoObj

(* AssetManager.init not called.                                             *)
AssetIdle ==
    /\ amgr = NoObj /\ msaved = <<>> /\ mbefore = NoObj
    /\ mcalled = Call("none", <<>>)

(* No Button created.                                                        *)
BtnIdle == button = NoObj /\ bevent = NoObj /\ bnotes = 0

Init ==
    /\ self \in Rectangles \cup Circles
    /\ other \in Supported \cup Foreign
    /\ called = Call("none", <<>>)
    /\ result = Unset
    /\ VecIdle /\ ObjIdle /\ EntIdle /\ RayIdle /\ TrigIdle /\ AllocIdle
    /\ AnimIdle
    /\ AssetIdle
    /\ BtnIdle

(* self.contains(other)                                                      *)
Contains ==
    /\ called' = Call("contains", <<>>)
    /\ result' = Call_contains(self, other)
    /\ UNCHANGED <<self, other, notGeoVars>>

(* self.intersects(other); Circle and BoundingVolume define no intersects.   *)
Intersects ==
    /\ called' = Call("intersects", <<>>)
    /\ result' = IF HasAttr(self, "intersects")
                 THEN Rectangle_intersects(self, other)
                 ELSE Raise("AttributeError")
    /\ UNCHANGED <<self, other, notGeoVars>>

(* self.intersect(other), a method of Rectangle only                         *)
Intersect ==
    /\ self.kind = "Rectangle"
    /\ called' = Call("intersect", <<>>)
    /\ result' = Rectangle_intersect(self, other)
    /\ UNCHANGED <<self, other, notGeoVars>>

(* self.offset(dx, dy) on a Rectangle                                        *)
Offset ==
    /\ self.kind = "Rectangle"
    /\ \E dx \in Offsets, dy \in Offsets :
          /\ called' = Call("offset", <<dx, dy>>)
          /\ result' = Rectangle_offset(self, dx, dy)
    /\ UNCHANGED <<self, other, notGeoVars>>

(* self.size()                                                               *)
SizeQuery ==
    /\ called' = Call("size", <<>>)
    /\ result' = Call_size(self)
    /\ UNCHANGED <<self, other, notGeoVars>>

Next == Contains \/ Intersects \/ Intersect \/ Offset \/ SizeQuery

Spec == Init /\ [][Next]_vars

-----------------------------------------------------------------------------
(* Vector algebra on two lists of possibly different lengths                 *)

(* No bounding-volume query under way.                                       *)
GeoIdle ==
    /\ self = Circle(<<0, 0>>, 0) /\ other = Vector(<<0, 0>>)
    /\ called = Call("none", <<>>) /\ result = Unset

Number(n) == [kind |-> "number", val |-> n]
(* An in-place operator returns its receiver.                                *)
Self == [kind |-> "self"]

(* Variant: plain list equality, lengths must agree.                    *)
Vector_eq_sameLength(a, b) == a = b

(* __eq__: the first differing zipped pair decides, otherwise True.          *)
RECURSIVE Vector_eq(_, _)
Vector_eq(a, b) ==
    IF a = <<>> \/ b = <<>> THEN TRUE
    ELSE IF Head(a) # Head(b) THEN FALSE
    ELSE Vector_eq(Tail(a), Tail(b))

RECURSIVE Vector_dot(_, _)
Vector_dot(a, b) ==
    IF a = <<>> \/ b = <<>> THEN 0
    ELSE Head(a) * Head(b) + Vector_dot(Tail(a), Tail(b))

(* Variant: the in-place loop runs over the zipped pairs only.               *)
Vector_iadd_zipped(a, b) ==
    [self |-> [i \in 1..Len(a) |-> IF i <= Len(b) THEN a[i] + b[i] ELSE a[i]],
     out |-> Self]

(* __iadd__: for i in range(len(self)): self[i] += other_vec[i].  The read   *)
(* other_vec[i] fails at the first index other_vec lacks, after the earlier  *)
(* components were already updated.                                          *)
Vector_iadd(a, b) ==
    [self |-> [i \in 1..Len(a) |-> IF i <= Len(b) THEN a[i] + b[i] ELSE a[i]],
     out |-> IF Len(b) < Len(a) THEN Raise("IndexError") ELSE Self]

Vector_isub(a, b) ==
    [self |-> [i \in 1..Len(a) |-> IF i <= Len(b) THEN a[i] - b[i] ELSE a[i]],
     out |-> IF Len(b) < Len(a) THEN Raise("IndexError") ELSE Self]

Vals == (0 - MaxVal)..MaxVal
Lists == UNION {[1..n -> Vals] : n \in 0..MaxDim}

InitVec ==
    /\ va \in Lists /\ vb \in Lists
    /\ vcalled = Call("none", <<>>) /\ vresult = Unset
    /\ GeoIdle /\ ObjIdle /\ EntIdle /\ RayIdle /\ TrigIdle /\ AllocIdle
    /\ AnimIdle
    /\ AssetIdle
    /\ BtnIdle

(* va + vb                                                                   *)
Add ==
    /\ vcalled' = Call("add", <<>>)
    /\ vresult' = Vector(Vector_add(va, vb))
    /\ UNCHANGED <<va, vb, notVecVars>>

(* va - vb                                                                   *)
Sub ==
    /\ vcalled' = Call("sub", <<>>)
    /\ vresult' = Vector(Vector_sub(va, vb))
    /\ UNCHANGED <<va, vb, notVecVars>>

(* va == vb                                                                  *)
Eq ==
    /\ vcalled' = Call("eq", <<>>)
    /\ vresult' = Bool(Vector_eq(va, vb))
    /\ UNCHANGED <<va, vb, notVecVars>>

(* va.dot(vb)                                                                *)
Dot ==
    /\ vcalled' = Call("dot", <<>>)
    /\ vresult' = Number(Vector_dot(va, vb))
    /\ UNCHANGED <<va, vb, notVecVars>>

(* va += vb, explored while the components stay within Vals                  *)
IAdd ==
    LET r == Vector_iadd(va, vb)
    IN /\ \A i \in 1..Len(va) : r.self[i] \in Vals
       /\ vcalled' = Call("iadd", <<>>)
       /\ va' = r.self
       /\ vresult' = r.out
       /\ UNCHANGED <<vb, notVecVars>>

(* va -= vb, explored while the components stay within Vals                  *)
ISub ==
    LET r == Vector_isub(va, vb)
    IN /\ \A i \in 1..Len(va) : r.self[i] \in Vals
       /\ vcalled' = Call("isub", <<>>)
       /\ va' = r.self
       /\ vresult' = r.out
       /\ UNCHANGED <<vb, notVecVars>>

NextVec == Add \/ Sub \/ Eq \/ Dot \/ IAdd \/ ISub

SpecVec == InitVec /\ [][NextVec]_vars

-----------------------------------------------------------------------------
(* Vector and Size objects: the list storage, the instance __dict__, named   *)
(* access through __getattr__ / __setattr__, in-place mutators, copies.      *)

EmptyDict == [n \in {} |-> 0]
Obj(cls, items, dict) == [cls |-> cls, items |-> items, dict |-> dict]

(* _ATTR_STRING of the class, one character per element.                     *)
ATTR_STRING(cls) == IF cls = "Size" THEN <<"w", "h", "l">> ELSE <<"x", "y", "z">>

(* str.find / str.index of a one-character name: 0-based position or -1.     *)
Str_find(str, ch) ==
    IF \E i \in 1..Len(str) : str[i] = ch
    THEN (CHOOSE i \in 1..Len(str) : str[i] = ch) - 1
    ELSE 0 - 1

(* list.__setitem__ with a non-negative index                                *)
List_setitem(o, i, value) ==
    IF i < Len(o.items)
    THEN [self |-> [o EXCEPT !.items[i + 1] = value], out |-> None]
    ELSE [self |-> o, out |-> Raise("IndexError")]

(* Vector.__getattr__, reached when the name is found neither in the         *)
(* instance __dict__ nor on the class.                                       *)
Vector_getattr(o, attr) ==
    LET idx == Str_find(ATTR_STRING(o.cls), attr)
    IN IF idx >= 0
       THEN IF idx < Len(o.items) THEN Number(o.items[idx + 1])
            ELSE Raise("IndexError")
       ELSE Raise("AttributeError")

(* The read o.attr                                                           *)
GetAttr(o, attr) ==
    IF attr \in DOMAIN o.dict THEN Number(o.dict[attr])
    ELSE Vector_getattr(o, attr)

DictPut(dict, attr, value) ==
    [n \in DOMAIN dict \cup {attr} |-> IF n = attr THEN value ELSE dict[n]]

(* Variant: the default object behaviour, every name stored in __dict__.     *)
Vector_setattr_plain(o, attr, value) ==
    [self |-> [o EXCEPT !.dict = DictPut(o.dict, attr, value)], out |-> None]

(* Vector.__setattr__                                                        *)
Vector_setattr(o, attr, value) ==
    LET idx == Str_find(ATTR_STRING(o.cls), attr)
    IN IF idx < 0
       THEN [self |-> [o EXCEPT !.dict = DictPut(o.dict, attr, value)],
             out |-> None]
       ELSE List_setitem(o, idx, value)

(* Vector.set                                                                *)
Vector_set(o, coords) ==
    IF Len(coords) # Len(o.items)
    THEN [self |-> o, out |-> Raise("AssertionError")]
    ELSE [self |-> [o EXCEPT !.items = coords], out |-> None]

Vector_imul(a, scale) == [i \in 1..Len(a) |-> a[i] * scale]

Vector_clear(a) == [i \in 1..Len(a) |-> 0]

(* Variant: a zero-length vector is handed back itself, not a copy.          *)
Vector_normalized_returnsSelf(o) ==
    LET length == Vector_length(o.items)
    IN IF length.floor # 0 \/ ~ length.exact
       THEN [fresh |-> TRUE,
             obj |-> Obj("Vector",
                         [i \in 1..Len(o.items) |-> o.items[i] \div length.floor],
                         EmptyDict)]
       ELSE [fresh |-> FALSE, obj |-> o]

(* Vector.normalized: a new Vector of x / length when the length is          *)
(* non-zero, otherwise self.copy(), which is Vector built from the items.    *)
(* fresh tells that the returned object is a new one.                        *)
Vector_normalized(o) ==
    LET length == Vector_length(o.items)
    IN IF length.floor # 0 \/ ~ length.exact
       THEN [fresh |-> TRUE,
             obj |-> Obj("Vector",
                         [i \in 1..Len(o.items) |-> o.items[i] \div length.floor],
                         EmptyDict)]
       ELSE [fresh |-> TRUE,
             obj |-> Obj("Vector", Vector_copy(o.items), EmptyDict)]

(* Receivers whose normalized components are integers: the length is an      *)
(* integer dividing every component (or is zero).                            *)
IntegralUnit(a) ==
    LET length == Vector_length(a)
    IN /\ length.exact
       /\ length.floor # 0 => \A i \in 1..Len(a) : a[i] % length.floor = 0

Names == {"x", "y", "z", "w", "h", "l"}
(* The one name outside _ATTR_STRING that is explored per class.             *)
OtherName(cls) == IF cls = "Size" THEN "x" ELSE "w"
NatVals == 0..MaxVal
Items == UNION {[1..n -> NatVals] : n \in 1..MaxDim}
Uniform == {[i \in 1..n |-> c] : n \in 1..MaxDim, c \in NatVals}
Ref(id) == [kind |-> "ref", id |-> id]

InitObj ==
    /\ \E cls \in {"Vector", "Size"}, items \in Items :
          heap = <<Obj(cls, items, EmptyDict), NoObj>>
    /\ ret = 0
    /\ ocalled = Call("none", <<>>) /\ oresult = Unset
    /\ GeoIdle /\ VecIdle /\ EntIdle /\ RayIdle /\ TrigIdle /\ AllocIdle
    /\ AnimIdle
    /\ AssetIdle
    /\ BtnIdle

(* The object a reference of the caller denotes: the receiver or ret.        *)
Target(t) == IF t = "self" THEN 1 ELSE ret

(* target[i] = value.  The caller holds a returned vector until its next     *)
(* write to the receiver; then the reference is dropped.                     *)
SetItem ==
    \E t \in {"self", "ret"}, i \in 0..(MaxDim - 1), value \in NatVals :
       /\ Target(t) # 0
       /\ LET r == List_setitem(heap[Target(t)], i, value)
          IN /\ IF t = "self"
                THEN heap' = [heap EXCEPT ![1] = r.self, ![2] = NoObj] /\ ret' = 0
                ELSE heap' = [heap EXCEPT ![ret] = r.self] /\ ret' = ret
             /\ oresult' = r.out
       /\ ocalled' = Call("setitem", <<t, i, value>>)
       /\ UNCHANGED notObjVars

(* self.attr = value                                                         *)
SetAttr ==
    \E attr \in Names, value \in NatVals :
       /\ attr \in Range(ATTR_STRING(heap[1].cls)) \cup {OtherName(heap[1].cls)}
       /\ LET r == Vector_setattr(heap[1], attr, value)
          IN /\ heap' = [heap EXCEPT ![1] = r.self, ![2] = NoObj]
             /\ oresult' = r.out
       /\ ret' = 0
       /\ ocalled' = Call("setattr", <<attr, value>>)
       /\ UNCHANGED notObjVars

(* self.attr                                                                 *)
ReadAttr ==
    \E attr \in Names :
       /\ oresult' = GetAttr(heap[1], attr)
       /\ ocalled' = Call("getattr", <<attr>>)
       /\ UNCHANGED <<heap, ret, notObjVars>>

(* self.set(coords...)                                                       *)
SetCoords ==
    \E coords \in Uniform :
       /\ LET r == Vector_set(heap[1], coords)
          IN /\ heap' = [heap EXCEPT ![1] = r.self, ![2] = NoObj]
             /\ oresult' = r.out
       /\ ret' = 0
       /\ ocalled' = Call("set", <<coords>>)
       /\ UNCHANGED notObjVars

(* self += b and self -= b, explored while the components stay in NatVals    *)
InPlaceAdd ==
    \E b \in Uniform, op \in {"iadd", "isub"} :
       LET r == IF op = "iadd" THEN Vector_iadd(heap[1].items, b)
                ELSE Vector_isub(heap[1].items, b)
       IN /\ \A i \in 1..Len(r.self) : r.self[i] \in NatVals
          /\ heap' = [heap EXCEPT ![1].items = r.self, ![2] = NoObj]
          /\ oresult' = r.out
          /\ ret' = 0
          /\ ocalled' = Call(op, <<b>>)
          /\ UNCHANGED notObjVars

(* self *= scale, explored while the components stay in NatVals              *)
InPlaceMul ==
    \E scale \in NatVals :
       LET a == Vector_imul(heap[1].items, scale)
       IN /\ \A i \in 1..Len(a) : a[i] \in NatVals
          /\ heap' = [heap EXCEPT ![1].items = a, ![2] = NoObj]
          /\ oresult' = Self
          /\ ret' = 0
          /\ ocalled' = Call("imul", <<scale>>)
          /\ UNCHANGED notObjVars

(* self.clear()                                                              *)
Clear ==
    /\ heap' = [heap EXCEPT ![1].items = Vector_clear(heap[1].items),
                            ![2] = NoObj]
    /\ oresult' = None
    /\ ret' = 0
    /\ ocalled' = Call("clear", <<>>)
    /\ UNCHANGED notObjVars

(* ret = self.normalized(), for receivers with integer unit components       *)
Normalized ==
    /\ IntegralUnit(heap[1].items)
    /\ LET r == Vector_normalized(heap[1])
       IN IF r.fresh
          THEN heap' = [heap EXCEPT ![2] = r.obj] /\ ret' = 2
          ELSE heap' = [heap EXCEPT ![2] = NoObj] /\ ret' = 1
    /\ oresult' = Ref(ret')
    /\ ocalled' = Call("normalized", <<>>)
    /\ UNCHANGED <<notObjVars>>

NextObj ==
    \/ SetItem \/ SetAttr \/ ReadAttr \/ SetCoords \/ InPlaceAdd
    \/ InPlaceMul \/ Clear \/ Normalized

SpecObj == InitObj /\ [][NextObj]_vars

-----------------------------------------------------------------------------
(* class Entity: __init__ with its default position, setPosition, move       *)

(* The object id of the Point(0, 0) evaluated once, when the def statement   *)
(* of Entity.__init__ is executed, and bound to the parameter default.       *)
DefaultPosition == 1

(* Entity.__init__(self) without a position: self.pos = position, the        *)
(* default object.                                                           *)
Entity_init_default(e) == DefaultPosition

EntityIds == 1..Len(epos)
Moves == {<<1, 0>>, <<0, 1>>, <<1, 1>>}

(* The module has been imported: the default Point exists, no Entity yet.    *)
InitEnt ==
    /\ pheap = <<<<0, 0>>>> \o [e \in 1..MaxEntities |-> <<>>]
    /\ epos = <<>>
    /\ ecalled = Call("none", <<>>)
    /\ GeoIdle /\ VecIdle /\ ObjIdle /\ RayIdle /\ TrigIdle /\ AllocIdle
    /\ AnimIdle
    /\ AssetIdle
    /\ BtnIdle

(* Entity()                                                                  *)
NewEntity ==
    /\ Len(epos) < MaxEntities
    /\ epos' = Append(epos, Entity_init_default(Len(epos) + 1))
    /\ ecalled' = Call("Entity", <<Len(epos) + 1>>)
    /\ UNCHANGED <<pheap, notEntVars>>

(* Entity(Vector(x, y)) with a Vector made for it                            *)
NewEntityAt ==
    /\ Len(epos) < MaxEntities
    /\ \E p \in Points :
          /\ pheap' = [pheap EXCEPT ![2 + Len(epos)] = p]
          /\ epos' = Append(epos, 2 + Len(epos))
          /\ ecalled' = Call("Entity", <<Len(epos) + 1, p>>)
    /\ UNCHANGED notEntVars

(* e.move(offset): self.pos += offset, in place on the object self.pos       *)
(* refers to; explored while the coordinates stay within Coords.             *)
Move ==
    \E e \in EntityIds, offset \in Moves :
       LET r == Vector_iadd(pheap[epos[e]], offset)
       IN /\ \A i \in 1..2 : r.self[i] \in Coords
          /\ pheap' = [pheap EXCEPT ![epos[e]] = r.self]
          /\ ecalled' = Call("move", <<e, offset>>)
          /\ UNCHANGED <<epos, notEntVars>>

(* e.setPosition(x, y): self.pos.set(x, y), in place                         *)
SetPositionXY ==
    \E e \in EntityIds, p \in Points :
       /\ pheap' = [pheap EXCEPT ![epos[e]] =
                      Vector_set(Obj("Vector", @, EmptyDict), p).self.items]
       /\ ecalled' = Call("setPosition", <<e, p[1], p[2]>>)
       /\ UNCHANGED <<epos, notEntVars>>

(* e.setPosition((x, y)): y is None and x is no Vector, so self.pos becomes  *)
(* the new object Vector(x, y).                                              *)
SetPositionTuple ==
    \E e \in EntityIds, p \in Points :
       /\ pheap' = [pheap EXCEPT ![1 + e] = p]
       /\ epos' = [epos EXCEPT ![e] = 1 + e]
       /\ ecalled' = Call("setPosition", <<e, p>>)
       /\ UNCHANGED notEntVars

NextEnt ==
    NewEntity \/ NewEntityAt \/ Move \/ SetPositionXY \/ SetPositionTuple

SpecEnt == InitEnt /\ [][NextEnt]_vars

(* e.getPosition()                                                           *)
Entity_getPosition(e) == pheap[epos[e]]

-----------------------------------------------------------------------------
(* class Ray: rotateRad / rotateDeg on the direction Vector                  *)

(* math.cos and math.sin at the angle of q quarter turns (q * pi / 2), taken *)
(* at their exact values.                                                    *)
QuarterCos(q) == <<1, 0, 0 - 1, 0>>[(q % 4) + 1]
QuarterSin(q) == <<0, 1, 0, 0 - 1>>[(q % 4) + 1]

(* Variant: both components computed from the direction on entry.            *)
Ray_rotateRad_fromEntry(dir, q) ==
    LET x1 == GetAttr(dir, "x").val * QuarterCos(q)
                 - GetAttr(dir, "y").val * QuarterSin(q)
        y1 == GetAttr(dir, "x").val * QuarterSin(q)
                 + GetAttr(dir, "y").val * QuarterCos(q)
    IN Vector_setattr(Vector_setattr(dir, "x", x1).self, "y", y1).self

(* Ray.rotateRad: the first statement stores the new dir.x, the second       *)
(* statement reads dir.x again to compute dir.y.                             *)
Ray_rotateRad(dir, q) ==
    LET x1 == GetAttr(dir, "x").val * QuarterCos(q)
                 - GetAttr(dir, "y").val * QuarterSin(q)
        dir1 == Vector_setattr(dir, "x", x1).self
        y1 == GetAttr(dir1, "x").val * QuarterSin(q)
                 + GetAttr(dir1, "y").val * QuarterCos(q)
    IN Vector_setattr(dir1, "y", y1).self

(* Ray.rotateDeg: degrees / RAD_DEGREES radians, for multiples of 90.        *)
Ray_rotateDeg(dir, degrees) == Ray_rotateRad(dir, degrees \div 90)

Dirs == {<<x, y>> : x \in (0 - MaxDir)..MaxDir, y \in (0 - MaxDir)..MaxDir}

(* Ray(pos, dir)                                                             *)
InitRay ==
    /\ \E d \in Dirs : rdir = Obj("Vector", d, EmptyDict)
    /\ rbefore = NoObj
    /\ rcalled = Call("none", <<>>)
    /\ GeoIdle /\ VecIdle /\ ObjIdle /\ EntIdle /\ TrigIdle /\ AllocIdle
    /\ AnimIdle
    /\ AssetIdle
    /\ BtnIdle

(* ray.rotateRad(q * pi / 2)                                                 *)
RotateRad ==
    \E q \in 0..3 :
       /\ rbefore' = rdir
       /\ rdir' = Ray_rotateRad(rdir, q)
       /\ rcalled' = Call("rotateRad", <<q>>)
       /\ UNCHANGED notRayVars

(* ray.rotateDeg(degrees)                                                    *)
RotateDeg ==
    \E degrees \in {0, 90, 180, 270} :
       /\ rbefore' = rdir
       /\ rdir' = Ray_rotateDeg(rdir, degrees)
       /\ rcalled' = Call("rotateDeg", <<degrees>>)
       /\ UNCHANGED notRayVars

NextRay == RotateRad \/ RotateDeg

SpecRay == InitRay /\ [][NextRay]_vars

-----------------------------------------------------------------------------
(* trigger.py: Trigger, Timer, Proximity and TriggerManager                  *)

(* Trigger.__init__ followed by Timer.__init__: autoremove = not recurring,  *)
(* and reset() sets time = 0.0.                                              *)
Timer(delay, callback, recurring) ==
    [type |-> "Timer", callback |-> callback, autoremove |-> ~ recurring,
     running |-> FALSE, triggered |-> FALSE,
     delay |-> delay, recurring |-> recurring, time |-> 0,
     bound_vol |-> NoObj]

(* Trigger.__init__(name, callback, False) followed by Proximity.__init__    *)
Proximity(bound_vol, callback) ==
    [type |-> "Proximity", callback |-> callback, autoremove |-> FALSE,
     running |-> FALSE, triggered |-> FALSE,
     delay |-> 0, recurring |-> FALSE, time |-> 0,
     bound_vol |-> bound_vol]

Trigger_reset(t) == [t EXCEPT !.running = FALSE, !.triggered = FALSE]

Timer_reset(t) == [Trigger_reset(t) EXCEPT !.time = 0]

(* The callbacks handed to triggers.  Count only records that it was called; *)
(* the others call back into the trigger's manager:                          *)
(*   removeTrigger: if t in tmgr.triggers: tmgr.removeTrigger(t), t = arg    *)
(*   clearTriggers: tmgr.clearTriggers()                                     *)
(*   addTimer:      tmgr.addTimer(arg, count)                                *)
Callback(kind, arg) == [kind |-> kind, arg |-> arg]
Count == Callback("count", 0)

(* Trigger._run: the callback, if any, is called once; ran tells whether.    *)
Trigger_run(t) ==
    [self |-> [t EXCEPT !.triggered = TRUE, !.running = FALSE],
     ran |-> t.callback # None]

(* Variant: a triggered timer is reset but never reports itself done.        *)
Timer_update_neverDone(t, dt) ==
    LET t0 == IF t.triggered THEN Timer_reset(t) ELSE t
        t1 == [t0 EXCEPT !.time = @ + dt]
    IN IF t1.time >= t1.delay
       THEN [self |-> Trigger_run(t1).self, ret |-> FALSE,
             ran |-> Trigger_run(t1).ran]
       ELSE [self |-> t1, ret |-> FALSE, ran |-> FALSE]

(* Timer.update                                                              *)
Timer_update(t, dt) ==
    IF t.triggered /\ ~ t.recurring
    THEN [self |-> Timer_reset(t), ret |-> TRUE, ran |-> FALSE]
    ELSE LET t0 == IF t.triggered THEN Timer_reset(t) ELSE t
             t1 == [t0 EXCEPT !.time = @ + dt]
         IN IF t1.time >= t1.delay
            THEN [self |-> Trigger_run(t1).self, ret |-> FALSE,
                  ran |-> Trigger_run(t1).ran]
            ELSE [self |-> t1, ret |-> FALSE, ran |-> FALSE]

(* Variant: the trigger runs on every update that finds the entity inside.   *)
Proximity_update_everyTime(t, entity) ==
    IF Call_contains(t.bound_vol, entity).val
    THEN [self |-> Trigger_run(t).self, ret |-> FALSE,
          ran |-> Trigger_run(t).ran]
    ELSE IF t.triggered
    THEN [self |-> Trigger_reset(t), ret |-> FALSE, ran |-> FALSE]
    ELSE [self |-> t, ret |-> FALSE, ran |-> FALSE]

(* Proximity.update                                                          *)
Proximity_update(t, entity) ==
    IF Call_contains(t.bound_vol, entity).val
    THEN IF ~ t.triggered
         THEN [self |-> Trigger_run(t).self, ret |-> FALSE,
               ran |-> Trigger_run(t).ran]
         ELSE [self |-> t, ret |-> FALSE, ran |-> FALSE]
    ELSE IF t.triggered
    THEN [self |-> Trigger_reset(t), ret |-> FALSE, ran |-> FALSE]
    ELSE [self |-> t, ret |-> FALSE, ran |-> FALSE]

(* x.update(dt), dispatched on the trigger's class                           *)
Call_update(t, dt, entity) ==
    IF t.type = "Timer" THEN Timer_update(t, dt)
    ELSE Proximity_update(t, entity)

(* What is observed of a trigger: updates it took part in (age), the dt      *)
(* handed to it in total (acc), callback invocations (calls), the age at the *)
(* last invocation (firedAge), whether the last update invoked the callback  *)
(* (firedLast) and what it returned (ret), and whether the entity was inside *)
(* its volume at the last update (curIn) and at the one before (prevIn).     *)
NewObs ==
    [age |-> 0, acc |-> 0, calls |-> 0, firedAge |-> 0,
     firedLast |-> FALSE, ret |-> FALSE, curIn |-> FALSE, prevIn |-> FALSE,
     removed |-> FALSE]

Observe(o, t, dt, entity, r) ==
    [age |-> o.age + 1, acc |-> o.acc + dt,
     calls |-> IF r.ran THEN o.calls + 1 ELSE o.calls,
     firedAge |-> IF r.ran THEN o.age + 1 ELSE o.firedAge,
     firedLast |-> r.ran,
     ret |-> r.ret,
     curIn |-> IF t.type = "Proximity"
               THEN Call_contains(t.bound_vol, entity).val ELSE FALSE,
     prevIn |-> o.curIn,
     removed |-> o.removed]

(* list.remove(x): the first occurrence is taken out.                        *)
List_remove(list, x) ==
    LET k == CHOOSE j \in 1..Len(list) :
                 list[j] = x /\ \A h \in 1..(j - 1) : list[h] # x
    IN [j \in 1..(Len(list) - 1) |-> IF j < k THEN list[j] ELSE list[j + 1]]

(* self.callback(self) inside Trigger._run, while TriggerManager.update is   *)
(* iterating st.list: removeTrigger and clearTriggers() change that very     *)
(* list object (list.remove, list.clear), addTrigger appends to it.  obs     *)
(* notes which triggers a callback took out.  At most MaxTriggers triggers   *)
(* are created.                                                              *)
Callback_call(cb, st) ==
    CASE cb.kind = "removeTrigger" /\ cb.arg \in Range(st.list) ->
           [st EXCEPT !.list = List_remove(@, cb.arg),
                      !.obs[cb.arg].removed = TRUE]
      [] cb.kind = "clearTriggers" ->
           [st EXCEPT !.list = <<>>,
                      !.obs = [y \in DOMAIN @ |->
                                 IF y \in Range(st.list)
                                 THEN [@[y] EXCEPT !.removed = TRUE]
                                 ELSE @[y]]]
      [] cb.kind = "addTimer" /\ Len(st.trig) < MaxTriggers ->
           [st EXCEPT !.list = Append(@, Len(st.trig) + 1),
                      !.trig = Append(@, Timer(cb.arg, Count, FALSE)),
                      !.obs = Append(@, NewObs)]
      [] OTHER -> st

(* TriggerManager.update: the list comprehension visits list[i] in turn,     *)
(* calls x.update(dt), which may run x's callback, and keeps x unless the    *)
(* update returned True and x.autoremove is set; the kept elements become    *)
(* self.triggers.                                                            *)
RECURSIVE UpdateLoop(_, _, _, _)
UpdateLoop(i, dt, entity, st) ==
    IF i > Len(st.list) THEN st
    ELSE LET x == st.list[i]
             r == Call_update(st.trig[x], dt, entity)
             seen == [st EXCEPT
                        !.obs[x] = Observe(@, st.trig[x], dt, entity, r)]
             run == IF r.ran THEN Callback_call(st.trig[x].callback, seen)
                    ELSE seen
         IN UpdateLoop(i + 1, dt, entity,
               [list |-> run.list,
                trig |-> [run.trig EXCEPT ![x] = r.self],
                obs |-> run.obs,
                kept |-> IF r.ret /\ r.self.autoremove THEN st.kept
                         ELSE Append(st.kept, x)])

TriggerManager_update(dt, entity) ==
    UpdateLoop(1, dt, entity,
               [list |-> triggers, trig |-> trig, kept |-> <<>>,
                obs |-> [y \in DOMAIN obs |->
                           [obs[y] EXCEPT !.removed = FALSE]]])

(* Volumes watched by the explored Proximity triggers.                       *)
ProxVolumes == {Rectangle(<<0, 0>>, <<1, 1>>), Circle(<<1, 1>>, 1)}

(* Places the watched entity is put at: inside both volumes, inside the     *)
(* rectangle only, outside both.                                             *)
ProxPositions == {<<1, 1>>, <<0, 0>>, <<2, 2>>}

(* TriggerManager(gc) and the watched Entity                                 *)
InitTrig ==
    /\ triggers = <<>> /\ trig = <<>> /\ obs = <<>>
    /\ tent \in ProxPositions
    /\ GeoIdle /\ VecIdle /\ ObjIdle /\ EntIdle /\ RayIdle /\ AllocIdle
    /\ AnimIdle
    /\ AssetIdle
    /\ BtnIdle

(* tmgr.addTimer(delay, callback, recurring)                                 *)
AddTimer ==
    /\ Len(trig) < MaxTriggers
    /\ \E delay \in 1..MaxDelay, recurring \in BOOLEAN :
          trig' = Append(trig, Timer(delay, Count, recurring))
    /\ triggers' = Append(triggers, Len(trig) + 1)
    /\ obs' = Append(obs, NewObs)
    /\ UNCHANGED <<tent, notTrigVars>>

(* tmgr.addTrigger(Proximity(name, entity, bound_vol, callback))             *)
AddProximity ==
    /\ Len(trig) < MaxTriggers
    /\ \E vol \in ProxVolumes :
          trig' = Append(trig, Proximity(vol, Count))
    /\ triggers' = Append(triggers, Len(trig) + 1)
    /\ obs' = Append(obs, NewObs)
    /\ UNCHANGED <<tent, notTrigVars>>

(* tmgr.update(dt), explored while no trigger has been handed more than      *)
(* MaxTime in total                                                          *)
Update ==
    \E dt \in 1..MaxDt :
       LET st == TriggerManager_update(dt, Entity(tent))
       IN /\ triggers # <<>>
          /\ \A x \in 1..Len(obs) : st.obs[x].acc <= MaxTime
          /\ triggers' = st.kept
          /\ trig' = st.trig
          /\ obs' = st.obs
          /\ UNCHANGED <<tent, notTrigVars>>

(* The watched entity is placed elsewhere: entity.setPosition(x, y)          *)
MoveEntity ==
    \E p \in ProxPositions \ {tent} :
       /\ tent' = p
       /\ UNCHANGED <<triggers, trig, obs, notTrigVars>>

NextTrig == AddTimer \/ AddProximity \/ Update \/ MoveEntity

SpecTrig == InitTrig /\ [][NextTrig]_vars

(* tmgr.addTimer(delay, callback, recurring) with a callback that calls back *)
(* into the manager                                                          *)
AddCallbackTimer ==
    /\ Len(trig) < MaxTriggers
    /\ \E delay \in 1..MaxDelay, recurring \in BOOLEAN,
          cb \in {Callback("removeTrigger", y) : y \in 1..MaxTriggers}
                  \cup {Callback("clearTriggers", 0), Callback("addTimer", 1)} :
          trig' = Append(trig, Timer(delay, cb, recurring))
    /\ triggers' = Append(triggers, Len(trig) + 1)
    /\ obs' = Append(obs, NewObs)
    /\ UNCHANGED <<tent, notTrigVars>>

NextReentrant == AddTimer \/ AddCallbackTimer \/ Update

(* The manager with triggers whose callbacks change its list during update   *)
SpecReentrant == InitTrig /\ [][NextReentrant]_vars

-----------------------------------------------------------------------------
(* utils.py: IdAllocator                                                     *)

(* IdAllocator.__init__; end_id is None or a number.                         *)
IdAllocator(start_id, end_id) ==
    [cls |-> "IdAllocator", start |-> start_id, end |-> end_id,
     curr |-> start_id]

(* Truth value of None or a number, as tested by "if end_id", "self.end and" *)
(* and "if reserve and".                                                     *)
Truthy(v) == v.kind = "number" /\ v.val # 0

(* IdAllocator.empty                                                         *)
IdAllocator_empty(a) == Truthy(a.end) /\ a.curr >= a.end.val

(* IdAllocator.allocate                                                      *)
IdAllocator_allocate(a, reserve) ==
    IF IdAllocator_empty(a) THEN [self |-> a, out |-> None]
    ELSE IF Truthy(reserve) /\ a.curr < reserve.val
    THEN [self |-> [a EXCEPT !.curr = reserve.val + 1], out |-> reserve]
    ELSE [self |-> [a EXCEPT !.curr = a.curr + 1], out |-> Number(a.curr)]

(* IdAllocator(start_id, end_id) for the arguments that pass the             *)
(* constructor's assertion (made only when end_id is truthy).                *)
InitAlloc ==
    /\ \E start_id \in (0 - 2)..1,
          end_id \in {None} \cup {Number(n) : n \in (0 - 1)..MaxId} :
          /\ Truthy(end_id) => start_id < end_id.val
          /\ alloc = IdAllocator(start_id, end_id)
    /\ aids = {} /\ adup = FALSE
    /\ acalled = Call("none", <<>>) /\ aresult = Unset
    /\ GeoIdle /\ VecIdle /\ ObjIdle /\ EntIdle /\ RayIdle /\ TrigIdle
    /\ AnimIdle
    /\ AssetIdle
    /\ BtnIdle

(* alloc.allocate() and alloc.allocate(reserve), explored until curr passes  *)
(* MaxId                                                                     *)
Allocate ==
    \E reserve \in {None} \cup {Number(n) : n \in (0 - 1)..(MaxId + 1)} :
       LET r == IdAllocator_allocate(alloc, reserve)
       IN /\ IdAllocator_empty(alloc) \/ alloc.curr <= MaxId
          /\ alloc' = r.self
          /\ aresult' = r.out
          /\ adup' = (adup \/ (r.out # None /\ r.out.val \in aids))
          /\ aids' = IF r.out = None THEN aids ELSE aids \cup {r.out.val}
          /\ acalled' = Call("allocate", <<reserve>>)
          /\ UNCHANGED notAllocVars

(* alloc.deallocate(value) of an id that was returned                        *)
Deallocate ==
    \E value \in aids :
       /\ aresult' = None
       /\ acalled' = Call("deallocate", <<value>>)
       /\ UNCHANGED <<alloc, aids, adup, notAllocVars>>

NextAlloc == Allocate \/ Deallocate

SpecAlloc == InitAlloc /\ [][NextAlloc]_vars

-----------------------------------------------------------------------------
(* asset.py: AnimationSet and Animator                                       *)

MODE_STOPPED == 0
MODE_PLAYONCE == 1
MODE_LOOP == 2
MODE_PING == 3
MODE_PONG == 4

(* AnimationSet.addAnim                                                      *)
AnimationSet_addAnim(d, name, start_frame, end_frame) ==
    IF d[name] # <<>> \/ start_frame > end_frame
    THEN [self |-> d, out |-> Bool(FALSE)]
    ELSE [self |-> [d EXCEPT ![name] = <<start_frame, end_frame>>],
          out |-> Bool(TRUE)]

(* Animator.__init__ with fps = 1.0; anim holds (first, last) at [1], [2].   *)
Animator(numTiles, mode) ==
    [cls |-> "Animator", mode |-> mode, period |-> 1, frame |-> 0,
     time |-> 0, anim |-> <<0, numTiles - 1>>]

(* Animator.next                                                             *)
Animator_next(a) ==
    IF a.mode = MODE_PONG
    THEN LET b == [a EXCEPT !.frame = @ - 1]
         IN IF b.frame = b.anim[1] THEN [b EXCEPT !.mode = MODE_PING] ELSE b
    ELSE IF a.mode # MODE_STOPPED
    THEN LET b == [a EXCEPT !.frame = @ + 1]
         IN IF b.frame >= b.anim[2]
            THEN IF b.mode = MODE_PLAYONCE THEN [b EXCEPT !.mode = MODE_STOPPED]
                 ELSE IF b.mode = MODE_PING THEN [b EXCEPT !.mode = MODE_PONG]
                 ELSE IF b.frame > b.anim[2] THEN [b EXCEPT !.frame = b.anim[1]]
                 ELSE b
            ELSE b
    ELSE a

(* Animator.update                                                           *)
Animator_update(a, dt) ==
    IF a.mode = MODE_STOPPED THEN a
    ELSE LET b == [a EXCEPT !.time = @ + dt]
         IN IF b.time > b.period
            THEN Animator_next([b EXCEPT !.time = @ - b.period])
            ELSE b

(* Animator.setAnim for a registered name; mode -1 keeps the mode.           *)
Animator_setAnim(a, d, name, mode) ==
    LET anim == d[name]
    IN IF anim # a.anim
       THEN LET b == [a EXCEPT !.anim = anim,
                               !.mode = IF mode >= 0 THEN mode ELSE @]
            IN [b EXCEPT !.frame = IF b.mode = MODE_PONG THEN b.anim[2]
                                   ELSE b.anim[1]]
       ELSE a

(* Animator.setFrame                                                         *)
Animator_setFrame(a, index) ==
    LET frame == a.anim[1] + index
    IN IF frame > a.anim[2] THEN [self |-> a, out |-> Bool(FALSE)]
       ELSE [self |-> [a EXCEPT !.frame = frame], out |-> Bool(TRUE)]

(* An AnimationSet of MaxFrame + 1 tiles after addAnim("a", ...) and         *)
(* addAnim("b", ...), and Animator(animset, mode)                            *)
InitAnim ==
    /\ \E sa \in 0..MaxFrame, ea \in 0..MaxFrame,
          sb \in 0..MaxFrame, eb \in 0..MaxFrame :
          anims = AnimationSet_addAnim(
                     AnimationSet_addAnim([n \in {"a", "b"} |-> <<>>],
                                          "a", sa, ea).self,
                     "b", sb, eb).self
    /\ \E mode \in MODE_STOPPED..MODE_PONG :
          animator = Animator(MaxFrame + 1, mode)
    /\ GeoIdle /\ VecIdle /\ ObjIdle /\ EntIdle /\ RayIdle /\ TrigIdle
    /\ AllocIdle
    /\ AssetIdle
    /\ BtnIdle

(* animator.setAnim(name, mode) and animator.setAnim(name)                   *)
SetAnim ==
    \E name \in {"a", "b"}, mode \in (0 - 1)..MODE_PONG :
       /\ anims[name] # <<>>
       /\ animator' = Animator_setAnim(animator, anims, name, mode)
       /\ UNCHANGED <<anims, notAnimVars>>

(* animator.update(dt), explored while the frame is within one of the tiles  *)
AnimUpdate ==
    \E dt \in 1..MaxDt :
       /\ animator.frame \in (0 - 1)..(MaxFrame + 1)
       /\ animator.time + dt <= MaxTime
       /\ animator' = Animator_update(animator, dt)
       /\ UNCHANGED <<anims, notAnimVars>>

(* animator.next(), explored while the frame is within one of the tiles      *)
AnimNext ==
    /\ animator.frame \in (0 - 1)..(MaxFrame + 1)
    /\ animator' = Animator_next(animator)
    /\ UNCHANGED <<anims, notAnimVars>>

(* animator.setFrame(index)                                                  *)
SetFrame ==
    \E index \in 0..MaxFrame :
       /\ animator' = Animator_setFrame(animator, index).self
       /\ UNCHANGED <<anims, notAnimVars>>

NextAnim == SetAnim \/ AnimUpdate \/ AnimNext \/ SetFrame

SpecAnim == InitAnim /\ [][NextAnim]_vars

-----------------------------------------------------------------------------
(* asset.py: AssetManager                                                    *)

Filenames == {"f", "g"}
(* The asset objects handed to trackAsset, with what getsizeof reports.      *)
Assets == {[cls |-> "Surface", size |-> 1], [cls |-> "TileSet", size |-> 2]}

(* AssetManager.AssetStack.__init__: assets is a defaultdict from class to   *)
(* {filename: asset}, kept here as its entries in insertion order.           *)
AssetStack == [assets |-> <<>>, size |-> 0]

(* AssetManager.init; curr is the index of the level self.curr refers to.    *)
AssetManager_init(cache_assets) ==
    [cls |-> "AssetManager", cache_assets |-> cache_assets,
     asset_stack |-> <<AssetStack>>, curr |-> 1, tsize |-> 0]

(* AssetManager._trackSize                                                   *)
AssetManager_trackSize(m, asset) ==
    [m EXCEPT !.asset_stack[m.curr].size = @ + asset.size,
              !.tsize = @ + asset.size]

(* self.curr.assets[asset_class]: the defaultdict creates a missing entry.   *)
ClassEntry(m, asset_class) ==
    LET es == m.asset_stack[m.curr].assets
    IN IF \E k \in 1..Len(es) : es[k].cls = asset_class THEN m
       ELSE [m EXCEPT !.asset_stack[m.curr].assets =
                Append(@, [cls |-> asset_class,
                           files |-> [f \in Filenames |-> None]])]

(* AssetManager.trackAsset                                                   *)
AssetManager_trackAsset(m, filename, asset) ==
    IF ~ m.cache_assets THEN [self |-> m, out |-> Bool(FALSE)]
    ELSE LET m1 == ClassEntry(m, asset.cls)
             es == m1.asset_stack[m1.curr].assets
             k == CHOOSE j \in 1..Len(es) : es[j].cls = asset.cls
         IN IF es[k].files[filename] = None
            THEN [self |-> AssetManager_trackSize(
                              [m1 EXCEPT !.asset_stack[m1.curr].assets[k]
                                            .files[filename] = asset],
                              asset),
                  out |-> Bool(TRUE)]
            ELSE [self |-> m1, out |-> Bool(FALSE)]

(* AssetManager.getAsset(filename): the first class of the current level     *)
(* that holds the filename answers.                                          *)
AssetManager_getAsset(m, filename) ==
    LET es == m.asset_stack[m.curr].assets
        hits == {k \in 1..Len(es) : es[k].files[filename] # None}
    IN IF hits = {} THEN None
       ELSE es[CHOOSE k \in hits : \A h \in hits : k <= h].files[filename]

(* AssetManager.saveAssets                                                   *)
AssetManager_saveAssets(m) ==
    LET idx == Len(m.asset_stack)
    IN [self |-> [m EXCEPT !.asset_stack = Append(@, AssetStack),
                           !.curr = idx + 1],
        out |-> Number(idx + 1)]

(* AssetManager.restoreAssets, for a stack of two levels or more             *)
AssetManager_restoreAssets(m) ==
    LET idx == Len(m.asset_stack) - 1
    IN [self |-> [m EXCEPT !.asset_stack = SubSeq(@, 1, idx), !.curr = idx],
        out |-> Number(idx)]

(* AssetManager().init(cache_assets)                                         *)
InitAsset ==
    /\ \E cache_assets \in BOOLEAN : amgr = AssetManager_init(cache_assets)
    /\ msaved = <<>> /\ mbefore = NoObj
    /\ mcalled = Call("none", <<>>)
    /\ GeoIdle /\ VecIdle /\ ObjIdle /\ EntIdle /\ RayIdle /\ TrigIdle
    /\ AllocIdle /\ AnimIdle
    /\ BtnIdle

(* amgr.trackAsset(filename, asset), explored up to a total size of MaxTotal *)
TrackAsset ==
    \E filename \in Filenames, asset \in Assets :
       /\ amgr.tsize + asset.size <= MaxTotal
       /\ amgr' = AssetManager_trackAsset(amgr, filename, asset).self
       /\ mcalled' = Call("trackAsset", <<filename, asset>>)
       /\ UNCHANGED <<msaved, mbefore, notAssetVars>>

(* amgr.saveAssets(), explored up to MaxDepth levels                         *)
SaveAssets ==
    /\ Len(amgr.asset_stack) < MaxDepth
    /\ amgr' = AssetManager_saveAssets(amgr).self
    /\ msaved' = Append(msaved, amgr)
    /\ mcalled' = Call("saveAssets", <<>>)
    /\ UNCHANGED <<mbefore, notAssetVars>>

(* amgr.restoreAssets() answering a saveAssets()                             *)
RestoreAssets ==
    /\ msaved # <<>>
    /\ amgr' = AssetManager_restoreAssets(amgr).self
    /\ mbefore' = msaved[Len(msaved)]
    /\ msaved' = SubSeq(msaved, 1, Len(msaved) - 1)
    /\ mcalled' = Call("restoreAssets", <<>>)
    /\ UNCHANGED notAssetVars

NextAsset == TrackAsset \/ SaveAssets \/ RestoreAssets

SpecAsset == InitAsset /\ [][NextAsset]_vars

-----------------------------------------------------------------------------
(* ui.py: Button                                                             *)

UP == 0
HOVER == 1
DOWN == 2

(* Button.__init__ (Frame.__init__ leaves parent = None, so getRect() is     *)
(* bounds); key is None or a key code, callback None or a callable.          *)
Button(bounds, callback, key) ==
    [cls |-> "Button", bounds |-> bounds, callback |-> callback,
     state |-> UP, key |-> key]

(* pygame.Rect.collidepoint: the right and bottom edges are outside.         *)
Rect_collidepoint(rect, pos) ==
    /\ rect.pos[1] <= pos[1] /\ pos[1] < rect.pos[1] + rect.size[1]
    /\ rect.pos[2] <= pos[2] /\ pos[2] < rect.pos[2] + rect.size[2]

(* Button._changeState; notes counts the calls of _notify.                   *)
Button_changeState(b, new_state) ==
    IF b.self.state = new_state THEN b
    ELSE [self |-> [b.self EXCEPT !.state = new_state],
          notes |-> IF b.self.state = DOWN /\ new_state \in {UP, HOVER}
                    THEN b.notes + 1 ELSE b.notes]

(* Button.processEvent, on the button and the notifications counted so far   *)
Button_processEvent(b, event) ==
    IF event.type = "MOUSEMOTION"
    THEN IF Rect_collidepoint(b.self.bounds, event.pos)
         THEN IF b.self.state # DOWN
              THEN [Button_changeState(b, HOVER) EXCEPT !.out = Bool(TRUE)]
              ELSE b
         ELSE IF b.self.state # UP THEN Button_changeState(b, UP)
         ELSE b
    ELSE IF event.type = "KEYDOWN" /\ event.key = b.self.key
    THEN Button_changeState(b, DOWN)
    ELSE IF b.self.state = HOVER
    THEN IF event.type = "MOUSEBUTTONDOWN"
         THEN [Button_changeState(b, DOWN) EXCEPT !.out = Bool(TRUE)]
         ELSE b
    ELSE IF b.self.state = DOWN
    THEN IF event.type = "MOUSEBUTTONUP"
         THEN [Button_changeState(b, HOVER) EXCEPT !.out = Bool(TRUE)]
         ELSE IF event.type = "KEYUP" /\ event.key = b.self.key
         THEN [Button_changeState(b, UP) EXCEPT !.out = Bool(TRUE)]
         ELSE b
    ELSE b

(* The events handed to the button: mouse events carry pos, key events key.  *)
ButtonEvents ==
    {[type |-> t, pos |-> p, key |-> None] :
        t \in {"MOUSEMOTION", "MOUSEBUTTONDOWN", "MOUSEBUTTONUP"},
        p \in {<<0, 0>>, <<1, 1>>}}
    \cup {[type |-> t, pos |-> <<>>, key |-> Number(k)] :
            t \in {"KEYDOWN", "KEYUP"}, k \in 1..2}

(* Button((0, 0, 1, 1), text, callback, key)                                 *)
InitBtn ==
    /\ \E callback \in {None, Count}, key \in {None, Number(1)} :
          button = Button(Rectangle(<<0, 0>>, <<1, 1>>), callback, key)
    /\ bevent = NoObj /\ bnotes = 0
    /\ GeoIdle /\ VecIdle /\ ObjIdle /\ EntIdle /\ RayIdle /\ TrigIdle
    /\ AllocIdle /\ AnimIdle /\ AssetIdle

(* button.processEvent(event), explored up to MaxClicks notifications        *)
ProcessEvent ==
    \E event \in ButtonEvents :
       LET r == Button_processEvent(
                   [self |-> button, notes |-> bnotes, out |-> Bool(FALSE)],
                   event)
       IN /\ bnotes < MaxClicks
          /\ button' = r.self
          /\ bnotes' = r.notes
          /\ bevent' = event
          /\ UNCHANGED notBtnVars

NextBtn == ProcessEvent

SpecBtn == InitBtn /\ [][NextBtn]_vars

-----------------------------------------------------------------------------
(* Geometry the properties below are stated in, written out in coordinates.  *)
Max(a, b) == IF a >= b THEN a ELSE b
Dist2(p, q) == (p[1] - q[1]) * (p[1] - q[1]) + (p[2] - q[2]) * (p[2] - q[2])
InBox(p, r) ==
    /\ r.pos[1] <= p[1] /\ p[1] <= r.pos[1] + r.size[1]
    /\ r.pos[2] <= p[2] /\ p[2] <= r.pos[2] + r.size[2]
CornerSet(r) ==
    { <<r.pos[1], r.pos[2]>>, <<r.pos[1] + r.size[1], r.pos[2]>>,
      <<r.pos[1], r.pos[2] + r.size[2]>>,
      <<r.pos[1] + r.size[1], r.pos[2] + r.size[2]>> }
CornerHit(a, b) ==
    \/ \E c \in CornerSet(a) : InBox(c, b)
    \/ \E c \in CornerSet(b) : InBox(c, a)
AreasOverlap(a, b) ==
    /\ Max(a.pos[1], b.pos[1]) <= Min(a.pos[1] + a.size[1], b.pos[1] + b.size[1])
    /\ Max(a.pos[2], b.pos[2]) <= Min(a.pos[2] + a.size[2], b.pos[2] + b.size[2])
Did(op, selfKind, otherKind) ==
    called.op = op /\ self.kind = selfKind /\ other.kind = otherKind

(* C1: a rectangle contains another rectangle iff it contains, edges         *)
(* included, both the other's top-left corner and its bottom-right corner    *)
(* pos + size; partial overlap is not containment.                           *)
C1_RectContainsRect ==
    Did("contains", "Rectangle", "Rectangle") =>
        result = Bool(/\ InBox(other.pos, self)
                      /\ InBox(<<other.pos[1] + other.size[1],
                                 other.pos[2] + other.size[2]>>, self))

(* A partially overlapping rectangle (top-left inside, bottom-right not)     *)
(* has been queried and reported as not contained.                           *)
C1_Witness ==
    /\ Did("contains", "Rectangle", "Rectangle")
    /\ InBox(other.pos, self)
    /\ other.pos[1] + other.size[1] > self.pos[1] + self.size[1]
    /\ result = Bool(FALSE)

(* C2: a rectangle contains a circle iff it contains the circle's centre and *)
(* each of its four corners is at distance >= radius from the centre.        *)
C2_RectContainsCircle ==
    Did("contains", "Rectangle", "Circle") =>
        result = Bool(/\ InBox(other.pos, self)
                      /\ \A c \in CornerSet(self) :
                            Dist2(c, other.pos) >= other.radius * other.radius)

(* A circle of positive radius with a corner exactly at the radius was       *)
(* reported as contained.                                                    *)
C2_Witness ==
    /\ Did("contains", "Rectangle", "Circle")
    /\ other.radius > 0
    /\ \E c \in CornerSet(self) :
          Dist2(c, other.pos) = other.radius * other.radius
    /\ result = Bool(TRUE)

(* C3: a rectangle contains a point iff left <= x <= right and               *)
(* top <= y <= bottom, all four edges inclusive.                             *)
C3_RectContainsPoint ==
    Did("contains", "Rectangle", "Vector") =>
        result = Bool(/\ self.pos[1] <= other.coords[1]
                      /\ other.coords[1] <= self.pos[1] + self.size[1]
                      /\ self.pos[2] <= other.coords[2]
                      /\ other.coords[2] <= self.pos[2] + self.size[2])

(* A point on the bottom-right corner of a proper rectangle is inside.       *)
C3_Witness ==
    /\ Did("contains", "Rectangle", "Vector")
    /\ self.size[1] > 0 /\ self.size[2] > 0
    /\ other.coords = <<self.pos[1] + self.size[1], self.pos[2] + self.size[2]>>
    /\ result = Bool(TRUE)

(* C4: two rectangles intersect iff a corner of one lies in the other; two   *)
(* rectangles crossing with no corner inside the other do not intersect.     *)
C4_IntersectsByCorners ==
    Did("intersects", "Rectangle", "Rectangle") =>
        result = Bool(CornerHit(self, other))

(* Two rectangles whose areas overlap in a plus shape were reported as not   *)
(* intersecting.                                                             *)
C4_Witness ==
    /\ Did("intersects", "Rectangle", "Rectangle")
    /\ AreasOverlap(self, other)
    /\ result = Bool(FALSE)

(* C5: intersect returns None when the rectangles do not intersect, and      *)
(* otherwise the rectangle with left/top the larger of the two left/top      *)
(* edges and right/bottom the smaller of the two right/bottom edges.         *)
C5_IntersectResult ==
    Did("intersect", "Rectangle", "Rectangle") =>
        IF ~ CornerHit(self, other)
        THEN result = None
        ELSE /\ result.kind = "Rectangle"
             /\ result.pos[1] = Max(self.pos[1], other.pos[1])
             /\ result.pos[2] = Max(self.pos[2], other.pos[2])
             /\ result.pos[1] + result.size[1] =
                   Min(self.pos[1] + self.size[1], other.pos[1] + other.size[1])
             /\ result.pos[2] + result.size[2] =
                   Min(self.pos[2] + self.size[2], other.pos[2] + other.size[2])

(* Two rectangles overlapping in a proper rectangle different from both.     *)
C5_Witness ==
    /\ Did("intersect", "Rectangle", "Rectangle")
    /\ result.kind = "Rectangle"
    /\ result.size[1] > 0 /\ result.size[2] > 0
    /\ result # self /\ result # other

(* C6: offset(dx, dy) returns a new rectangle at pos - (dx, dy) with size    *)
(* size + (dx, dy).                                                          *)
C6_OffsetResult ==
    Did("offset", "Rectangle", other.kind) =>
        result = Rectangle(<<self.pos[1] - called.args[1],
                             self.pos[2] - called.args[2]>>,
                           <<self.size[1] + called.args[1],
                             self.size[2] + called.args[2]>>)

(* C7: a circle contains another circle iff its radius is the larger and the *)
(* distance between the centres is strictly less than the radius difference. *)
C7_CircleContainsCircle ==
    Did("contains", "Circle", "Circle") =>
        result = Bool(/\ self.radius > other.radius
                      /\ Dist2(self.pos, other.pos) <
                           (self.radius - other.radius)
                             * (self.radius - other.radius))

(* A smaller circle off-centre was reported as contained.                    *)
C7_Witness ==
    /\ Did("contains", "Circle", "Circle")
    /\ self.pos # other.pos
    /\ result = Bool(TRUE)

(* C8: a circle contains a rectangle iff it contains the rectangle's pos and *)
(* its pos + size corner; the other two corners are not consulted.           *)
C8_CircleContainsRect ==
    Did("contains", "Circle", "Rectangle") =>
        result = Bool(/\ Dist2(self.pos, other.pos)
                           <= self.radius * self.radius
                      /\ Dist2(self.pos, <<other.pos[1] + other.size[1],
                                           other.pos[2] + other.size[2]>>)
                           <= self.radius * self.radius)

(* A rectangle whose top-right corner is outside the circle was reported as  *)
(* contained.                                                                *)
C8_Witness ==
    /\ Did("contains", "Circle", "Rectangle")
    /\ Dist2(self.pos, <<other.pos[1] + other.size[1], other.pos[2]>>)
          > self.radius * self.radius
    /\ result = Bool(TRUE)

(* C9: a circle contains a point iff the distance from its centre to the     *)
(* point is at most the radius.                                              *)
C9_CircleContainsPoint ==
    Did("contains", "Circle", "Vector") =>
        result = Bool(Dist2(self.pos, other.coords)
                         <= self.radius * self.radius)

(* A point exactly on the circumference is contained.                        *)
C9_Witness ==
    /\ Did("contains", "Circle", "Vector")
    /\ self.radius > 0
    /\ Dist2(self.pos, other.coords) = self.radius * self.radius
    /\ result = Bool(TRUE)

(* C10: contains or intersects with an operand that is no Vector, Rectangle, *)
(* Circle or Entity reports the unsupported-kind error (NotImplementedError) *)
(* and never a boolean or None.                                              *)
C10_UnsupportedKindReported ==
    (called.op \in {"contains", "intersects"} /\ other \in Foreign) =>
        result = Raise("NotImplementedError")

(* C11: for every Rectangle and every Circle, size() returns the pair        *)
(* (width(), height()): (size.w, size.h) for a Rectangle and                 *)
(* (2*radius, 2*radius) for a Circle.                                        *)
C11_SizeIsWidthHeight ==
    called.op = "size" =>
        result = Tuple(IF self.kind = "Rectangle"
                       THEN <<self.size[1], self.size[2]>>
                       ELSE <<2 * self.radius, 2 * self.radius>>)

(* C13: for vectors a and b of equal dimension, (a + b) - b == a and        *)
(* (a + b) == (b + a); the binary operators return new vectors and leave a   *)
(* and b unchanged.                                                          *)
C13_AddRoundTripCommutes ==
    /\ [](  (vcalled.op = "add" /\ Len(va) = Len(vb)) =>
              /\ vresult.kind = "Vector"
              /\ Vector_eq(Vector_sub(vresult.coords, vb), va)
              /\ Vector_sub(vresult.coords, vb) = va
              /\ Vector_eq(vresult.coords, Vector_add(vb, va)) )
    /\ [][ vcalled'.op \in {"add", "sub"} => (va' = va /\ vb' = vb) ]_vars

(* Two different non-zero vectors of dimension 2 or more have been added.    *)
C13_Witness ==
    /\ vcalled.op = "add" /\ Len(va) = Len(vb) /\ Len(va) >= 2
    /\ va # vb /\ va[1] # 0 /\ vb[2] # 0
    /\ vresult.kind = "Vector"

(* C14: a == b is true iff a[i] == b[i] for every index i below the shorter  *)
(* length; components beyond it are ignored and unequal lengths never fail.  *)
C14_EqOverZippedPrefix ==
    vcalled.op = "eq" =>
        vresult = Bool(\A i \in 1..Min(Len(va), Len(vb)) : va[i] = vb[i])

(* A vector compared equal to a longer one with a non-zero extra component.  *)
C14_Witness ==
    /\ vcalled.op = "eq"
    /\ Len(va) >= 1 /\ Len(vb) > Len(va) /\ vb[Len(vb)] # 0
    /\ vresult = Bool(TRUE)

(* C15 as stated: between operands of unequal length add, subtract, dot and  *)
(* the in-place add / subtract all complete without raising, whichever       *)
(* operand is the shorter.                                                   *)
C15_NeverRaises ==
    (vcalled.op \in {"add", "sub", "dot", "iadd", "isub"}
        /\ Len(va) # Len(vb)) => vresult.kind # "raise"

(* C15 amended: add, subtract and dot never raise on unequal lengths; the    *)
(* in-place add / subtract complete when the receiver is the shorter operand *)
(* and raise IndexError when the receiver is the longer one.                 *)
C15_RaisesOnlyInPlaceLongerReceiver ==
    (vcalled.op \in {"add", "sub", "dot", "iadd", "isub"}
        /\ Len(va) # Len(vb)) =>
        IF vcalled.op \in {"iadd", "isub"} /\ Len(va) > Len(vb)
        THEN vresult = Raise("IndexError")
        ELSE vresult.kind # "raise"

(* An in-place add whose receiver is the shorter operand completed, and one  *)
(* on unequal lengths is the case at hand.                                   *)
C15_Witness ==
    /\ vcalled.op = "iadd" /\ Len(va) >= 1 /\ Len(va) < Len(vb)
    /\ vresult = Self

IsZero(a) == \A i \in 1..Len(a) : a[i] = 0

(* C16: normalized() of a zero vector does not fail: it returns a new vector *)
(* equal to the zero vector, leaves the receiver unchanged, and the returned *)
(* vector is independent storage (writing it does not change the receiver).  *)
C16_ZeroNormalizedIsFreshZero ==
    /\ []( (ocalled.op = "normalized" /\ IsZero(heap[1].items)) =>
              /\ oresult = Ref(2) /\ ret = 2
              /\ heap[2].cls = "Vector"
              /\ Len(heap[2].items) = Len(heap[1].items)
              /\ IsZero(heap[2].items) )
    /\ [][ ocalled'.op = "normalized" => heap'[1] = heap[1] ]_vars
    /\ [][ (ocalled'.op = "setitem" /\ ocalled'.args[1] = "ret")
              => heap'[1] = heap[1] ]_vars

(* A zero vector of dimension 2 or more has been normalized.                 *)
C16_Witness ==
    /\ ocalled.op = "normalized"
    /\ Len(heap[1].items) >= 2 /\ IsZero(heap[1].items)
    /\ oresult.kind = "ref"

(* The axis names: x, y, z on Vector and w, h, l on Size, by index.          *)
AxisName(cls, k) ==
    IF cls = "Size" THEN <<"w", "h", "l">>[k + 1] ELSE <<"x", "y", "z">>[k + 1]
IsAxis(o, attr, k) == k < Len(o.items) /\ attr = AxisName(o.cls, k)

(* C17: named and positional access are in sync: after any sequence of       *)
(* positional writes, named writes, set() and in-place operators, reading    *)
(* axis name k returns the component at index k, and a write by name changes *)
(* exactly that one component.                                               *)
C17_NamedPositionalInSync ==
    /\ []( \A k \in 0..2 : k < Len(heap[1].items) =>
              GetAttr(heap[1], AxisName(heap[1].cls, k))
                 = Number(heap[1].items[k + 1]) )
    /\ []( \A k \in 0..2 :
              (ocalled.op = "getattr" /\ IsAxis(heap[1], ocalled.args[1], k))
                 => oresult = Number(heap[1].items[k + 1]) )
    /\ [][ \A k \in 0..2 :
              (ocalled'.op = "setattr" /\ IsAxis(heap[1], ocalled'.args[1], k))
                 => /\ oresult' = None
                    /\ heap'[1] = [heap[1] EXCEPT
                                     !.items[k + 1] = ocalled'.args[2]] ]_vars

(* The second axis of a Size has been written by its name h.                 *)
C17_Witness ==
    /\ ocalled = Call("setattr", <<"h", 1>>)
    /\ heap[1].cls = "Size" /\ Len(heap[1].items) = 3
    /\ heap[1].items = <<0, 1, 0>>

(* C12: an Entity owns its position Vector exclusively: an in-place position *)
(* change on one Entity (move, or setPosition with two scalars) never        *)
(* changes the position read from another Entity, also when both were        *)
(* created with the default position.                                        *)
C12_ExclusivePosition ==
    [][ \A e \in 1..Len(epos) :
          ( /\ \/ ecalled'.op = "move"
               \/ ecalled'.op = "setPosition" /\ Len(ecalled'.args) = 3
            /\ ecalled'.args[1] # e )
          => pheap'[epos'[e]] = pheap[epos[e]] ]_vars

(* The standard 2D rotation of (x, y) by the angle with cosine c and sine s. *)
Rotated(x, y, c, s) == <<x * c - y * s, x * s + y * c>>
ExactCos(q) == CASE q = 0 -> 1 [] q = 1 -> 0 [] q = 2 -> 0 - 1 [] q = 3 -> 0
ExactSin(q) == CASE q = 0 -> 0 [] q = 1 -> 1 [] q = 2 -> 0 [] q = 3 -> 0 - 1

(* C18 as stated: for exact quarter-turn angles and every integer dir,       *)
(* rotateRad leaves dir equal to the standard rotation                       *)
(* (x*cos - y*sin, x*sin + y*cos) of the original x, y.                      *)
C18_QuarterTurnsAreStandard ==
    rcalled.op = "rotateRad" =>
        rdir.items = Rotated(rbefore.items[1], rbefore.items[2],
                             ExactCos(rcalled.args[1]), ExactSin(rcalled.args[1]))

(* C18 amended: rotateRad computes dir.y from the already updated dir.x;     *)
(* among the exact quarter turns it equals the standard rotation for the     *)
(* multiples of 180 degrees only.  For (cos, sin) = (0, 1) it leaves         *)
(* (-y, -y) and for (0, -1) it leaves (y, -y), which is the standard         *)
(* rotation only if x = -y, respectively x = y.                              *)
C18_OnlyHalfTurnsAreStandard ==
    rcalled.op = "rotateRad" =>
        LET x == rbefore.items[1]
            y == rbefore.items[2]
            c == ExactCos(rcalled.args[1])
            s == ExactSin(rcalled.args[1])
        IN /\ s = 0 => rdir.items = Rotated(x, y, c, s)
           /\ s = 1 => rdir.items = <<0 - y, 0 - y>>
           /\ s = 0 - 1 => rdir.items = <<y, 0 - y>>
           /\ (rdir.items = Rotated(x, y, c, s)) <=> (s = 0 \/ x = (0 - s) * y)

(* A quarter turn of (2, 1) has left (-1, -1), not (-1, 2).                  *)
C18_Witness ==
    /\ rcalled = Call("rotateRad", <<1>>)
    /\ rbefore.items = <<2, 1>>
    /\ rdir.items = <<0 - 1, 0 - 1>>

(* C19: a non-recurring Timer added with addTimer(delay, callback) has had   *)
(* its callback invoked exactly once if an update has brought the dt handed  *)
(* to it up to delay, and not at all otherwise; once the callback has been   *)
(* invoked the timer stays in the manager's list only until the next update, *)
(* which is the one update of the timer that returns True.                   *)
C19_FiresOnceThenRemoved ==
    \A x \in 1..Len(trig) :
       (trig[x].type = "Timer" /\ ~ trig[x].recurring) =>
          /\ obs[x].calls =
                IF obs[x].age > 0 /\ obs[x].acc >= trig[x].delay THEN 1 ELSE 0
          /\ x \in Range(triggers) <=>
                (obs[x].calls = 0 \/ obs[x].age = obs[x].firedAge)
          /\ obs[x].ret <=> (obs[x].calls = 1 /\ obs[x].age > obs[x].firedAge)

(* A one-shot timer of delay 2 was updated with dt = 1 three times: nothing  *)
(* at the first update, the callback at the second, removal at the third.    *)
C19_Witness ==
    \E x \in 1..Len(trig) :
       /\ trig[x].type = "Timer" /\ ~ trig[x].recurring /\ trig[x].delay = 2
       /\ obs[x].age = 3 /\ obs[x].acc = 3 /\ obs[x].firedAge = 2
       /\ obs[x].calls = 1
       /\ x \notin Range(triggers)

(* C20: a Proximity trigger stays in the manager's list, its update returns  *)
(* False, and its callback was invoked at the last update iff the entity was *)
(* inside the volume at that update and either that was the trigger's first  *)
(* update or the entity was outside at the update before.                    *)
C20_FiresOnEntryOnly ==
    \A x \in 1..Len(trig) :
       trig[x].type = "Proximity" =>
          /\ x \in Range(triggers)
          /\ ~ obs[x].ret
          /\ obs[x].age > 0 =>
                (obs[x].firedLast <=>
                   (obs[x].curIn /\ (obs[x].age = 1 \/ ~ obs[x].prevIn)))

(* The entity was inside at the first update, outside at the second and     *)
(* inside again at the third: two invocations, the second at the third       *)
(* update.                                                                   *)
C20_Witness ==
    \E x \in 1..Len(trig) :
       /\ trig[x].type = "Proximity"
       /\ obs[x].age = 3 /\ obs[x].calls = 2 /\ obs[x].firedAge = 3
       /\ obs[x].curIn /\ ~ obs[x].prevIn

(* C21: over any sequence of allocate() and allocate(reserve) calls no id is *)
(* returned twice, and a call made when curr >= end_id returns None.         *)
C21_UniqueAndNoneOnceEmpty ==
    /\ [] ~ adup
    /\ [][ (acalled'.op = "allocate" /\ alloc.end.kind = "number"
                /\ alloc.curr >= alloc.end.val)
              => aresult' = None ]_vars

(* C22: when callbacks call removeTrigger, addTrigger or clearTriggers on    *)
(* the manager during update, every trigger registered before the update    *)
(* that no callback took out (and that did not finish by itself) is updated  *)
(* exactly once in that update and is registered afterwards, and every       *)
(* trigger a callback removed or cleared is absent afterwards.               *)
C22_ReentrantChangesAreSafe ==
    [][ (\E y \in DOMAIN obs : obs'[y].age > obs[y].age) =>
          \A x \in Range(triggers) :
             /\ obs'[x].removed => x \notin Range(triggers')
             /\ (~ obs'[x].removed /\ ~ (obs'[x].ret /\ trig'[x].autoremove))
                   => /\ obs'[x].age = obs[x].age + 1
                      /\ x \in Range(triggers') ]_vars

(* C23: after any sequence of setAnim with a registered animation, update,   *)
(* next and successful setFrame calls, in every mode, the current frame lies *)
(* in the current animation range: anim[0] <= frame <= anim[1].              *)
C23_FrameInsideRange ==
    animator.anim[1] <= animator.frame /\ animator.frame <= animator.anim[2]

(* What C24 compares of a manager: stack depth, the level curr refers to,    *)
(* the answer of getAsset for every filename, and tsize.                     *)
ManagerView(m) ==
    [depth |-> Len(m.asset_stack), curr |-> m.curr,
     found |-> [f \in Filenames |-> AssetManager_getAsset(m, f)],
     tsize |-> m.tsize]

(* C24: after saveAssets(), any number of trackAsset calls and               *)
(* restoreAssets(), the manager has the stack depth, current level, getAsset *)
(* answers and tsize it had just before saveAssets().                        *)
C24_RestoreUndoesSave ==
    mcalled.op = "restoreAssets" => ManagerView(amgr) = ManagerView(mbefore)

(* C25: a click notification is issued only for a release event received     *)
(* while the button is DOWN (MOUSEBUTTONUP, or KEYUP of the bound key), one  *)
(* per event, and a MOUSEMOTION event never causes one.                      *)
C25_NotifiesOnReleaseOnly ==
    [][ /\ bnotes' # bnotes =>
              /\ bnotes' = bnotes + 1
              /\ button.state = DOWN
              /\ \/ bevent'.type = "MOUSEBUTTONUP"
                 \/ bevent'.type = "KEYUP" /\ bevent'.key = button.key
        /\ bevent'.type = "MOUSEMOTION" => bnotes' = bnotes ]_vars

=============================================================================
